---- MODULE Spec2Model ----
(***************************************************************************)
(* The memory-crystal store of services/memory-crystal-service/app.py:     *)
(* store_crystal, retrieve_crystal, search_crystals,                       *)
(* calculate_crystal_efficiency and reward_broskie_crystals over the two   *)
(* backends (Redis, or the in-process dict of MemoryCrystalManager).       *)
(*                                                                         *)
(* Python values are named by their literals ("[]", "None", "{'step': 1}") *)
(* and JSON texts by the text json.dumps produces.  Floats are exact       *)
(* rationals [n, d] in lowest terms.  The clock is "now", in seconds; it   *)
(* stamps achievements and last_accessed and drives the expiry of Redis    *)
(* keys; it never goes backwards.  The record field created_at and the     *)
(* 'timestamp' of a history sample are not part of this development;       *)
(* Prometheus counters mirror the manager's counters and are left out.     *)
(*                                                                         *)
(* Spec, SpecFaults, SpecTTL and SpecIdle run each call to completion in   *)
(* one step.  SpecRing, SpecThreads, SpecMilestone and SpecHits run calls  *)
(* of threads step by step, one step per access to shared state.           *)
(* SpecStall has a Redis server that stops answering, SpecMonitor is the   *)
(* loop of background_efficiency_monitor, both under weak fairness.        *)
(*                                                                         *)
(* SpecHealth is the reward cooldown of                                    *)
(* services/legendary-health-service/app.py: check_broskie_rewards run by  *)
(* two threads of that service, line by line.                              *)
(***************************************************************************)
EXTENDS Integers, Sequences, FiniteSets, TLC

\* ---------------------------------------------------------------- bounds
MaxCalls == 4
MaxLimit == 1
MaxRingCalls == 102
MaxThreadCalls == 2
MaxNowDays == 60
MaxMilestoneCalls == 11
MaxSeconds == 2
MaxStallCalls == 2
\* calls of the request threads where one record is read again and again
MaxHitCalls == 12
\* days of the clock where idle records are read
MaxIdleDays == 8
\* health evaluations begun, and the seconds of the clock they run in
MaxHealthCalls == 2
MaxHealthSeconds == 630
\* the seconds the monitor loop is followed for, and the component rewards
\* chance grants in that time
MaxLiveSeconds == 1500
MaxLucky == 1

\* ------------------------------------------------------------- constants
HistoryKeep == 100
MilestoneEvery == 10
MilestoneReward == 10
DefaultRatio == 100
socket_connect_timeout == 5
SleepInterval == 60
SleepBackoff == 30
Day == 86400
\* timedelta(days=30), in seconds
TTL == 30 * Day
\* 7 * 24 * 3600: the seconds after which the recency term is at its floor
RecencyWindow == 7 * Day
\* the health service's reward thresholds, cooldowns (seconds) and amounts
HighThreshold == 95
LegendaryThreshold == 98
HighCooldown == 300
LegendaryCooldown == 600
HighReward == 500
LegendaryReward == 1000
ComponentReward == 100

\* --------------------------------------------------------- Python values
None == "None"

\* bool(v): the values Python treats as false
Truthy(v) == v \notin {"None", "[]", "''", "0", "{}", "False"}

Categories == {"workflow", "debug"}
PatternData == {"{'step': 1}", "[]"}
Metadata == {"(1,)", "None"}
PatternMatches == {"None", "step"}

\* values json.dumps has no encoding for: a Python set
Unserializable == {"{1, 2}"}

\* json.dumps(v) returns; otherwise it raises TypeError
json_serializable(v) == v \notin Unserializable

\* json.dumps(v, sort_keys=True) of the values above
json_dumps(v) ==
  CASE v = "{'step': 1}" -> "{\"step\": 1}"
    [] v = "{}" -> "{}"
    [] v = "[]" -> "[]"
    [] v = "(1,)" -> "[1]"
    [] v = "[1]" -> "[1]"
    [] v = "''" -> "\"\""
    [] v = "0" -> "0"
    [] v = "None" -> "null"

\* json.loads(text)
json_loads(s) ==
  CASE s = "{\"step\": 1}" -> "{'step': 1}"
    [] s = "{}" -> "{}"
    [] s = "[]" -> "[]"
    [] s = "[1]" -> "[1]"
    [] s = "\"\"" -> "''"
    [] s = "0" -> "0"
    [] s = "null" -> "None"
    [] s = "\"{1, 2}\"" -> "'{1, 2}'"

\* json.dumps(v, default=str): what has no encoding goes in as the text str(v)
json_dumps_default_str(v) ==
  IF json_serializable(v) THEN json_dumps(v) ELSE "\"" \o v \o "\""

\* needle.lower() in text.lower(), for the needles and texts above
substring_in(needle, text) ==
  \/ needle = ""
  \/ needle = "step" /\ text = "{\"step\": 1}"

\* hashlib.md5(f"{category}:{json.dumps(pattern_data, sort_keys=True)}").hexdigest()[:12]
md5_12(content) ==
  CASE content = "workflow:{\"step\": 1}" -> "c7d187318505"
    [] content = "workflow:[]" -> "ead0049826d6"
    [] content = "workflow:[1]" -> "87d273158651"
    [] content = "workflow:{}" -> "2a566ed37c59"
    [] content = "debug:{\"step\": 1}" -> "2b1d3154395e"
    [] content = "debug:[]" -> "78868161e151"
    [] content = "debug:[1]" -> "6b46e3225add"
    [] content = "debug:{}" -> "91cc49eacbac"

generate_crystal_id(pattern_data, category) ==
  md5_12(category \o ":" \o json_dumps(pattern_data))

\* the ids callers ask for: every id a Put can return, and one never written
CrystalIds ==
  {generate_crystal_id(p, c) : p \in PatternData, c \in Categories}
    \cup {"doesnotexist"}

\* ------------------------------------------------------------- rationals
RECURSIVE GCD(_, _)
GCD(a, b) == IF b = 0 THEN a ELSE GCD(b, a % b)

Rat(n, d) == LET g == GCD(n, d) IN [n |-> n \div g, d |-> d \div g]
RatAdd(x, y) == Rat(x.n * y.d + y.n * x.d, x.d * y.d)
RatMul(x, y) == Rat(x.n * y.n, x.d * y.d)
RatLeq(x, y) == x.n * y.d <= y.n * x.d
Min(a, b) == IF a <= b THEN a ELSE b
RatSub(x, y) == Rat(x.n * y.d - y.n * x.d, x.d * y.d)
RatMin(x, y) == IF RatLeq(x, y) THEN x ELSE y
RatMax(x, y) == IF RatLeq(x, y) THEN y ELSE x

\* ------------------------------------------------------------------ state
VARIABLES
  REDIS_AVAILABLE,     \* the backend flag set once at import
  crystals,            \* crystal_manager.crystals: a dict, kept in insertion order
  redis,               \* the Redis keyspace: key -> JSON text of a crystal
  access_patterns,     \* crystal_manager.access_patterns (a defaultdict(int))
  cache_performance,   \* crystal_manager.cache_performance
  total_operations,    \* crystal_manager.total_operations
  efficiency_history,  \* crystal_manager.efficiency_history
  broskie_balance,     \* crystal_manager.broskie_balance
  achievements,        \* crystal_manager.achievements
  call,                \* the last call made and its arguments
  ret,                 \* what that call returned
  written,             \* history: the ids Puts have returned
  hits_since_put,      \* history: per id, the Gets that returned it since its last Put
  gets_hit,            \* history: the Gets that returned a record
  gets_missed,         \* history: the Gets that found no record
  ids_hit,             \* history: the ids some Get returned a record for
  hits_ever,           \* history: per id, the Gets that ever returned it
  calls,               \* history: the calls made so far
  puts_done,           \* history: the Puts that returned an id
  put_at,              \* history: per id, when the last Put returned it (-1: never)
  now,                 \* the wall clock, in seconds since the process started
  redis_answers,       \* the Redis server replies to the requests it receives
  pc,                  \* per thread, the line its call stands at ("idle": no call)
  local,               \* per thread, the local variables of its call
  thread_calls,        \* history: the calls threads have begun, step by step
  legendary_state,     \* the health service's LegendaryHealthState object
  health_pc,           \* per health-service thread, the line its evaluation stands at
  health_local,        \* per health-service thread, the locals of its evaluation
  health_calls         \* history: the health evaluations begun

store == <<crystals, redis>>
counters == <<access_patterns, cache_performance, total_operations>>
rewards_state == <<broskie_balance, achievements>>
history == <<written, hits_since_put, gets_hit, gets_missed, ids_hit, hits_ever,
            calls, puts_done, put_at>>
threads_state == <<pc, local, thread_calls>>
\* what no call that runs to completion in one step touches
\* what lies outside the process
health_service == <<legendary_state, health_pc, health_local, health_calls>>
outside == <<redis_answers, health_service>>
elsewhere == <<threads_state, now, outside>>
vars == <<REDIS_AVAILABLE, store, counters, efficiency_history, rewards_state,
          call, ret, history, elsewhere>>

\* the background monitor thread and two request-handler threads
Threads == {"monitor", "request1", "request2"}

\* what a call returns: None, a str, a dict, a list or a float
ReturnNone == [py |-> "NoneType"]
ReturnStr(s) == [py |-> "str", s |-> s]
ReturnList(items) == [py |-> "list", items |-> items]
ReturnFloat(x) == [py |-> "float", n |-> x.n, d |-> x.d]

EmptyDict == [k \in {} |-> 0]

\* what a handler hands to its caller when nothing catches the exception
reraise == [py |-> "Exception"]

\* the "except Exception" clauses: what each function returns from them
store_crystal_except == ReturnNone
retrieve_crystal_except == ReturnNone
search_crystals_except == ReturnList(<<>>)
calculate_crystal_efficiency_except == ReturnFloat([n |-> 0, d |-> 1])

\* the health service's background monitor thread and a request-handler thread
HealthThreads == {"monitor", "request"}

\* the locals of a health-service thread that runs no evaluation
NoHealthLocals ==
  [health_score |-> 0, excellent |-> FALSE, current_time |-> 0,
   rewards_earned |-> 0, tmp |-> 0]

\* the locals of a thread that runs no call
NoLocals ==
  [crystal_id |-> "", tmp |-> 0, result |-> ReturnNone,
   achievement_type |-> "", value |-> 0, time |-> 0, resume |-> "",
   request |-> ""]

\* ------------------------------------------------------- class MemoryCrystal
MemoryCrystal(crystal_id, category, pattern_data, metadata) ==
  [crystal_id |-> crystal_id,
   category |-> category,
   pattern_data |-> IF Truthy(pattern_data) THEN pattern_data ELSE "{}",
   metadata |-> IF Truthy(metadata) THEN metadata ELSE "{}",
   last_accessed |-> now,
   access_count |-> 0,
   efficiency_score |-> Rat(0, 1)]

\* datetime.isoformat(): a str from which nothing reads the time back
isoformat(t) == [py |-> "str", iso |-> t]

to_dict(crystal) ==
  [py |-> "dict",
   crystal_id |-> crystal.crystal_id,
   category |-> crystal.category,
   pattern_data |-> crystal.pattern_data,
   metadata |-> crystal.metadata,
   last_accessed |-> isoformat(crystal.last_accessed),
   access_count |-> crystal.access_count,
   efficiency_score |-> crystal.efficiency_score]

\* update_access without "self.access_count += 1"
update_access_no_count(crystal) == crystal

\* the score without "min(1.0, ...)" around the time factor
efficiency_score_of_uncapped(access_count, idle) ==
  LET time_factor == Rat(access_count, 10)
      recency_factor ==
        RatMax(Rat(1, 10), RatSub(Rat(1, 1), Rat(idle, RecencyWindow)))
  IN RatMul(RatAdd(RatMul(time_factor, Rat(6, 10)),
                   RatMul(recency_factor, Rat(4, 10))),
            Rat(100, 1))

\* (time_factor * 0.6 + recency_factor * 0.4) * 100, where idle is
\* time.time() - self.last_accessed.timestamp()
efficiency_score_of(access_count, idle) ==
  LET time_factor == RatMin(Rat(1, 1), Rat(access_count, 10))
      recency_factor ==
        RatMax(Rat(1, 10), RatSub(Rat(1, 1), Rat(idle, RecencyWindow)))
  IN RatMul(RatAdd(RatMul(time_factor, Rat(6, 10)),
                   RatMul(recency_factor, Rat(4, 10))),
            Rat(100, 1))

\* last_accessed is assigned first, so the idle time in the score is the
\* time between two clock reads of one call: none, on a clock of seconds
update_access(crystal) ==
  LET last_accessed == now
      access_count == crystal.access_count + 1
  IN [crystal EXCEPT
        !.last_accessed = last_accessed,
        !.access_count = access_count,
        !.efficiency_score = efficiency_score_of(access_count,
                                                 now - last_accessed)]

\* json.dumps(crystal.to_dict(), default=str): the text stored in Redis
json_dumps_dict(d) ==
  [crystal_id |-> d.crystal_id,
   category |-> d.category,
   pattern_data |-> json_dumps_default_str(d.pattern_data),
   metadata |-> json_dumps_default_str(d.metadata),
   last_accessed |-> d.last_accessed,
   access_count |-> d.access_count,
   efficiency_score |-> d.efficiency_score]

\* json.loads(data) of such a text
json_loads_dict(data) ==
  [py |-> "dict",
   crystal_id |-> data.crystal_id,
   category |-> data.category,
   pattern_data |-> json_loads(data.pattern_data),
   metadata |-> json_loads(data.metadata),
   last_accessed |-> data.last_accessed,
   access_count |-> data.access_count,
   efficiency_score |-> data.efficiency_score]

\* ------------------------------------------------------------ the backends
redis_key(crystal_id) == "crystal:" \o crystal_id

\* a SET that leaves the expiry of an existing key as it was
expires_at_keep_first(key) ==
  IF key \in DOMAIN redis THEN redis[key].expires_at ELSE now + TTL

\* the instant a key written now is gone
expires_at(key) == now + TTL

\* redis_client.setex(key, timedelta(days=30), value)
redis_setex(key, value) ==
  [k \in DOMAIN redis \cup {key} |->
     IF k = key
     THEN [data |-> value, expires_at |-> expires_at(key)]
     ELSE redis[k]]

\* redis_client.get(key) of a key that is there
redis_get(key) == redis[key].data

\* the keyspace once the clock shows t: Redis has dropped what expired
redis_at(t) ==
  [k \in {k \in DOMAIN redis : redis[k].expires_at > t} |-> redis[k]]

\* the dict crystal_manager.crystals, a sequence of crystals in insertion order
dict_index(d, crystal_id) ==
  {i \in 1..Len(d) : d[i].crystal_id = crystal_id}

dict_has(d, crystal_id) == dict_index(d, crystal_id) # {}

dict_get(d, crystal_id) == d[CHOOSE i \in dict_index(d, crystal_id) : TRUE]

\* a list.append in place of the dict assignment: no dedup by id
dict_set_always_append(d, crystal_id, crystal) == Append(d, crystal)

\* an assignment that merges: the stored crystal's access_count survives
dict_set_keep_access_count(d, crystal_id, crystal) ==
  IF dict_has(d, crystal_id)
  THEN [i \in 1..Len(d) |->
          IF d[i].crystal_id = crystal_id
          THEN [crystal EXCEPT !.access_count = d[i].access_count]
          ELSE d[i]]
  ELSE Append(d, crystal)

\* d[crystal_id] = crystal: an existing key keeps its place
dict_set(d, crystal_id, crystal) ==
  IF dict_has(d, crystal_id)
  THEN [i \in 1..Len(d) |-> IF d[i].crystal_id = crystal_id THEN crystal ELSE d[i]]
  ELSE Append(d, crystal)

\* the object held under crystal_id after a method mutated it in place
dict_mutated(d, crystal_id, crystal) ==
  [i \in 1..Len(d) |-> IF d[i].crystal_id = crystal_id THEN crystal ELSE d[i]]

\* the orders redis_client.keys("crystal:*") may answer in
KeyOrders ==
  IF REDIS_AVAILABLE
  THEN LET K == DOMAIN redis
           n == Cardinality(K)
       IN {s \in [1..n -> K] : \A i, j \in 1..n : i # j => s[i] # s[j]}
  ELSE {<<>>}

\* ------------------------------------------------- reward_broskie_crystals
reward_amount(achievement_type, value) ==
  CASE achievement_type = "storage_milestone" -> value * MilestoneReward
    [] achievement_type = "high_efficiency" -> (value.n * 5) \div value.d
    [] achievement_type = "search_master" -> 250
    [] achievement_type = "cache_champion" -> 500

\* achievement_type.replace('_', ' ').title()
title(achievement_type) ==
  CASE achievement_type = "storage_milestone" -> "Storage Milestone"
    [] achievement_type = "high_efficiency" -> "High Efficiency"
    [] achievement_type = "search_master" -> "Search Master"
    [] achievement_type = "cache_champion" -> "Cache Champion"

reward_broskie_crystals(achievement_type, value) ==
  LET reward == reward_amount(achievement_type, value) IN
  /\ broskie_balance' = broskie_balance + reward
  /\ achievements' = Append(achievements,
       [type |-> title(achievement_type), time |-> now, reward |-> reward,
        value |-> value])

\* ------------------------------------------------------ history variables
\* What callers saw, told from the call and its result alone.
Observe ==
  LET put_ok == call'.op = "store_crystal" /\ ret'.py = "str"
      get_hit == call'.op = "retrieve_crystal" /\ ret'.py = "dict"
      get_miss == call'.op = "retrieve_crystal" /\ ret'.py = "NoneType"
                    /\ ~call'.io_fails
  IN
  /\ written' = IF put_ok THEN written \cup {ret'.s} ELSE written
  /\ hits_since_put' =
       IF put_ok THEN [hits_since_put EXCEPT ![ret'.s] = 0]
       ELSE IF get_hit THEN [hits_since_put EXCEPT ![call'.crystal_id] = @ + 1]
       ELSE hits_since_put
  /\ gets_hit' = IF get_hit THEN gets_hit + 1 ELSE gets_hit
  /\ gets_missed' = IF get_miss THEN gets_missed + 1 ELSE gets_missed
  /\ ids_hit' = IF get_hit THEN ids_hit \cup {call'.crystal_id} ELSE ids_hit
  /\ hits_ever' = IF get_hit THEN [hits_ever EXCEPT ![call'.crystal_id] = @ + 1]
                  ELSE hits_ever
  /\ calls' = calls + 1
  /\ puts_done' = IF put_ok THEN puts_done + 1 ELSE puts_done
  /\ put_at' = IF put_ok THEN [put_at EXCEPT ![ret'.s] = now] ELSE put_at

\* ---------------------------------------------------------------- Init
Init ==
  /\ REDIS_AVAILABLE \in BOOLEAN
  /\ crystals = <<>>
  /\ redis = EmptyDict
  /\ access_patterns = EmptyDict
  /\ cache_performance = [hits |-> 0, misses |-> 0]
  /\ total_operations = 0
  /\ efficiency_history = <<>>
  /\ broskie_balance = 0
  /\ achievements = <<>>
  /\ call = [op |-> "import"]
  /\ ret = ReturnNone
  /\ written = {}
  /\ hits_since_put = [i \in CrystalIds |-> 0]
  /\ gets_hit = 0
  /\ gets_missed = 0
  /\ ids_hit = {}
  /\ hits_ever = [i \in CrystalIds |-> 0]
  /\ calls = 0
  /\ puts_done = 0
  /\ put_at = [i \in CrystalIds |-> -1]
  /\ now = 0
  /\ redis_answers = TRUE
  /\ pc = [t \in Threads |-> "idle"]
  /\ local = [t \in Threads |-> NoLocals]
  /\ thread_calls = 0
  /\ legendary_state = [health_score |-> 0, broskie_balance |-> 0,
                        last_reward_time |-> now, achievements |-> <<>>]
  /\ health_pc = [t \in HealthThreads |-> "idle"]
  /\ health_local = [t \in HealthThreads |-> NoHealthLocals]
  /\ health_calls = 0

\* ------------------------------------------------------------ store_crystal
\* total_operations += 1 moved above the write: a failed setex is counted
store_write_counts_first(crystal, io_fails) ==
  IF REDIS_AVAILABLE /\ io_fails
  THEN [stored |-> FALSE, redis |-> redis, crystals |-> crystals,
        total_operations |-> total_operations + 1]
  ELSE IF REDIS_AVAILABLE
  THEN [stored |-> TRUE,
        redis |-> redis_setex(redis_key(crystal.crystal_id),
                              json_dumps_dict(to_dict(crystal))),
        crystals |-> crystals,
        total_operations |-> total_operations + 1]
  ELSE [stored |-> TRUE,
        redis |-> redis,
        crystals |-> dict_set(crystals, crystal.crystal_id, crystal),
        total_operations |-> total_operations + 1]

\* a failed setex answered by a write to the in-process dict
store_write_falls_back(crystal, io_fails) ==
  IF REDIS_AVAILABLE /\ ~io_fails
  THEN [stored |-> TRUE,
        redis |-> redis_setex(redis_key(crystal.crystal_id),
                              json_dumps_dict(to_dict(crystal))),
        crystals |-> crystals,
        total_operations |-> total_operations + 1]
  ELSE [stored |-> TRUE,
        redis |-> redis,
        crystals |-> dict_set(crystals, crystal.crystal_id, crystal),
        total_operations |-> total_operations + 1]

\* Lines 125-135: the write to the backend and the count of it.  When setex
\* raises, control leaves the try block before anything is counted.
store_write(crystal, io_fails) ==
  IF REDIS_AVAILABLE /\ io_fails
  THEN [stored |-> FALSE, redis |-> redis, crystals |-> crystals,
        total_operations |-> total_operations]
  ELSE IF REDIS_AVAILABLE
  THEN [stored |-> TRUE,
        redis |-> redis_setex(redis_key(crystal.crystal_id),
                              json_dumps_dict(to_dict(crystal))),
        crystals |-> crystals,
        total_operations |-> total_operations + 1]
  ELSE [stored |-> TRUE,
        redis |-> redis,
        crystals |-> dict_set(crystals, crystal.crystal_id, crystal),
        total_operations |-> total_operations + 1]

store_crystal(category, pattern_data, metadata, io_fails) ==
  LET crystal_id == generate_crystal_id(pattern_data, category)
      crystal == MemoryCrystal(crystal_id, category, pattern_data, metadata)
      write == store_write(crystal, io_fails)
  IN
  /\ calls < MaxCalls
  /\ io_fails => REDIS_AVAILABLE /\ json_serializable(pattern_data)
  /\ call' = [op |-> "store_crystal", category |-> category,
              pattern_data |-> pattern_data, metadata |-> metadata,
              io_fails |-> io_fails]
  /\ IF json_serializable(pattern_data)
     THEN /\ redis' = write.redis
          /\ crystals' = write.crystals
          /\ total_operations' = write.total_operations
          /\ IF write.stored /\ write.total_operations % MilestoneEvery = 0
             THEN reward_broskie_crystals("storage_milestone",
                                          write.total_operations)
             ELSE UNCHANGED rewards_state
          /\ ret' = IF write.stored
                    THEN ReturnStr(crystal_id)
                    ELSE store_crystal_except
     ELSE \* generate_crystal_id raised TypeError before anything was built
          /\ ret' = store_crystal_except
          /\ UNCHANGED <<store, total_operations, rewards_state>>
  /\ UNCHANGED <<REDIS_AVAILABLE, access_patterns, cache_performance,
                 efficiency_history>>
  /\ UNCHANGED elsewhere
  /\ Observe

\* --------------------------------------------------------- retrieve_crystal
\* The memory branch: the crystal found, or nothing.
memory_lookup(crystal_id) ==
  IF dict_has(crystals, crystal_id)
  THEN LET crystal == update_access(dict_get(crystals, crystal_id)) IN
       [crystals |-> dict_mutated(crystals, crystal_id, crystal),
        crystal_data |-> to_dict(crystal),
        hit |-> TRUE]
  ELSE [crystals |-> crystals, crystal_data |-> ReturnNone, hit |-> FALSE]

\* a Redis branch that counts the access on the record it returns
redis_lookup_counts_access(crystal_id) ==
  IF redis_key(crystal_id) \in DOMAIN redis
  THEN [crystals |-> crystals,
        crystal_data |->
          [json_loads_dict(redis_get(redis_key(crystal_id)))
             EXCEPT !.access_count = @ + 1],
        hit |-> TRUE]
  ELSE [crystals |-> crystals, crystal_data |-> ReturnNone, hit |-> FALSE]

\* The Redis branch: redis_client.get answers the text or None.
redis_lookup(crystal_id) ==
  IF redis_key(crystal_id) \in DOMAIN redis
  THEN [crystals |-> crystals,
        crystal_data |-> json_loads_dict(redis_get(redis_key(crystal_id))),
        hit |-> TRUE]
  ELSE [crystals |-> crystals, crystal_data |-> ReturnNone, hit |-> FALSE]

\* the miss branch counting a hit
count_lookup_miss_as_hit(hit) ==
  [cache_performance EXCEPT !.hits = @ + 1]

\* cache_performance after the lookup
count_lookup(hit) ==
  IF hit
  THEN [cache_performance EXCEPT !.hits = @ + 1]
  ELSE [cache_performance EXCEPT !.misses = @ + 1]

\* the defaultdict read that inserts the id at 0, the increment lost
count_access_lost_increment(crystal_id) ==
  [k \in DOMAIN access_patterns \cup {crystal_id} |->
     IF k \in DOMAIN access_patterns THEN access_patterns[k] ELSE 0]

\* crystal_manager.access_patterns[crystal_id] += 1 on a defaultdict(int)
count_access(crystal_id) ==
  [k \in DOMAIN access_patterns \cup {crystal_id} |->
     IF k = crystal_id
     THEN (IF k \in DOMAIN access_patterns THEN access_patterns[k] ELSE 0) + 1
     ELSE access_patterns[k]]

retrieve_crystal(crystal_id, io_fails) ==
  /\ calls < MaxCalls
  /\ io_fails => REDIS_AVAILABLE
  /\ call' = [op |-> "retrieve_crystal", crystal_id |-> crystal_id,
              io_fails |-> io_fails]
  /\ IF REDIS_AVAILABLE /\ io_fails
     THEN \* redis_client.get raised
          /\ ret' = retrieve_crystal_except
          /\ UNCHANGED <<crystals, access_patterns, cache_performance>>
     ELSE LET found == IF REDIS_AVAILABLE
                       THEN redis_lookup(crystal_id)
                       ELSE memory_lookup(crystal_id)
          IN
          /\ crystals' = found.crystals
          /\ cache_performance' = count_lookup(found.hit)
          /\ access_patterns' = IF found.crystal_data.py = "dict"
                                THEN count_access(crystal_id)
                                ELSE access_patterns
          /\ ret' = found.crystal_data
  /\ UNCHANGED <<REDIS_AVAILABLE, redis, total_operations, efficiency_history,
                 rewards_state>>
  /\ UNCHANGED elsewhere
  /\ Observe

\* ---------------------------------------------------------- search_crystals
\* "if category and x != category: continue" and the pattern_match filter
filtered_out(category, pattern_match, crystal_category, pattern_text) ==
  \/ Truthy(category) /\ crystal_category # category
  \/ Truthy(pattern_match) /\ ~substring_in(pattern_match, pattern_text)

\* for crystal in crystal_manager.crystals.values(): ... break
RECURSIVE memory_scan(_, _, _, _, _)
memory_scan(values, category, pattern_match, limit, results) ==
  IF values = <<>> THEN results
  ELSE LET crystal == Head(values) IN
       IF filtered_out(category, pattern_match, crystal.category,
                       json_dumps(crystal.pattern_data))
       THEN memory_scan(Tail(values), category, pattern_match, limit, results)
       ELSE LET appended == Append(results, to_dict(crystal)) IN
            IF Len(appended) >= limit
            THEN appended
            ELSE memory_scan(Tail(values), category, pattern_match, limit, appended)

\* for key in crystal_keys[:limit * 2]: data = redis_client.get(key) ... break
RECURSIVE redis_scan(_, _, _, _, _)
redis_scan(keys, category, pattern_match, limit, results) ==
  IF keys = <<>> THEN results
  ELSE LET crystal_data == json_loads_dict(redis_get(Head(keys))) IN
       IF filtered_out(category, pattern_match, crystal_data.category,
                       json_dumps(crystal_data.pattern_data))
       THEN redis_scan(Tail(keys), category, pattern_match, limit, results)
       ELSE LET appended == Append(results, crystal_data) IN
            IF Len(appended) >= limit
            THEN appended
            ELSE redis_scan(Tail(keys), category, pattern_match, limit, appended)

\* the crystals the memory loop has looked at when it ends; found is
\* len(results) so far
RECURSIVE memory_examined(_, _, _, _, _)
memory_examined(values, category, pattern_match, limit, found) ==
  IF values = <<>> THEN 0
  ELSE LET crystal == Head(values) IN
       IF filtered_out(category, pattern_match, crystal.category,
                       json_dumps(crystal.pattern_data))
       THEN 1 + memory_examined(Tail(values), category, pattern_match, limit,
                                found)
       ELSE IF found + 1 >= limit
            THEN 1
            ELSE 1 + memory_examined(Tail(values), category, pattern_match,
                                     limit, found + 1)

\* the redis_client.get calls the Redis loop has made when it ends
RECURSIVE redis_examined(_, _, _, _, _)
redis_examined(keys, category, pattern_match, limit, found) ==
  IF keys = <<>> THEN 0
  ELSE LET crystal_data == json_loads_dict(redis_get(Head(keys))) IN
       IF filtered_out(category, pattern_match, crystal_data.category,
                       json_dumps(crystal_data.pattern_data))
       THEN 1 + redis_examined(Tail(keys), category, pattern_match, limit,
                               found)
       ELSE IF found + 1 >= limit
            THEN 1
            ELSE 1 + redis_examined(Tail(keys), category, pattern_match,
                                    limit, found + 1)

\* crystal_keys[:limit * 2]
slice_to(s, n) == SubSeq(s, 1, Min(Len(s), n))

\* the stored entries one search_crystals call looks at
search_examined(category, pattern_match, limit, crystal_keys) ==
  IF REDIS_AVAILABLE
  THEN redis_examined(slice_to(crystal_keys, limit * 2), category,
                      pattern_match, limit, 0)
  ELSE memory_examined(crystals, category, pattern_match, limit, 0)

search_results(category, pattern_match, limit, crystal_keys) ==
  IF REDIS_AVAILABLE
  THEN redis_scan(slice_to(crystal_keys, limit * 2), category, pattern_match,
                  limit, <<>>)
  ELSE memory_scan(crystals, category, pattern_match, limit, <<>>)

\* a search that counts an access on every crystal it returns
search_crystals_counting_access(category, pattern_match, limit, io_fails, crystal_keys) ==
  /\ calls < MaxCalls
  /\ io_fails => REDIS_AVAILABLE
  /\ call' = [op |-> "search_crystals", category |-> category,
              pattern_match |-> pattern_match, limit |-> limit,
              io_fails |-> io_fails]
  /\ ret' = IF REDIS_AVAILABLE /\ io_fails
            THEN search_crystals_except
            ELSE ReturnList(search_results(category, pattern_match, limit,
                                           crystal_keys))
  /\ crystals' =
       [i \in 1..Len(crystals) |->
          IF \E j \in 1..Len(ret'.items) :
               ret'.items[j].crystal_id = crystals[i].crystal_id
          THEN update_access(crystals[i])
          ELSE crystals[i]]
  /\ UNCHANGED <<REDIS_AVAILABLE, redis, counters, efficiency_history,
                 rewards_state>>
  /\ UNCHANGED elsewhere
  /\ Observe

search_crystals(category, pattern_match, limit, io_fails, crystal_keys) ==
  /\ calls < MaxCalls
  /\ io_fails => REDIS_AVAILABLE
  /\ call' = [op |-> "search_crystals", category |-> category,
              pattern_match |-> pattern_match, limit |-> limit,
              io_fails |-> io_fails]
  /\ ret' = IF REDIS_AVAILABLE /\ io_fails
            THEN search_crystals_except
            ELSE ReturnList(search_results(category, pattern_match, limit,
                                           crystal_keys))
  /\ UNCHANGED <<REDIS_AVAILABLE, store, counters, efficiency_history,
                 rewards_state>>
  /\ UNCHANGED elsewhere
  /\ Observe

\* --------------------------------------------- calculate_crystal_efficiency
\* the ratio of an idle cache taken as 0
cache_ratio_of_zero_default(hits, misses) ==
  IF hits + misses = 0
  THEN Rat(0, 1)
  ELSE RatMul(Rat(hits, hits + misses), Rat(100, 1))

cache_ratio_of(hits, misses) ==
  IF hits + misses = 0
  THEN Rat(DefaultRatio, 1)
  ELSE RatMul(Rat(hits, hits + misses), Rat(100, 1))

\* len([k for k, v in access_patterns.items() if v > 0])
active_crystals_of(patterns) ==
  Cardinality({k \in DOMAIN patterns : patterns[k] > 0})

\* the two weights exchanged
efficiency_of_weights_swapped(cache_ratio, active_crystals) ==
  RatAdd(RatMul(cache_ratio, Rat(4, 10)),
         RatMul(Rat(Min(100, active_crystals * 2), 1), Rat(6, 10)))

\* (cache_ratio * 0.6) + (min(100, active_crystals * 2) * 0.4)
efficiency_of(cache_ratio, active_crystals) ==
  RatAdd(RatMul(cache_ratio, Rat(6, 10)),
         RatMul(Rat(Min(100, active_crystals * 2), 1), Rat(4, 10)))

\* the history is never trimmed
history_overflows_never(h) == FALSE

\* len(crystal_manager.efficiency_history) > 100
history_overflows(h) == Len(h) > HistoryKeep

\* the newest sample dropped: pop() in place of pop(0)
list_pop_last(h) == SubSeq(h, 1, Len(h) - 1)

\* crystal_manager.efficiency_history.pop(0)
list_pop_0(h) == Tail(h)

\* append, then "if len(history) > 100: history.pop(0)"
history_append(h, sample) ==
  LET appended == Append(h, sample) IN
  IF history_overflows(appended) THEN list_pop_0(appended) ELSE appended

\* raises: access_patterns.items() raised RuntimeError (the dict changed size
\* under the iteration of line 237), before any sample was built
calculate_crystal_efficiency(raises) ==
  LET cache_ratio == cache_ratio_of(cache_performance.hits,
                                    cache_performance.misses)
      active_crystals == active_crystals_of(access_patterns)
      efficiency == efficiency_of(cache_ratio, active_crystals)
  IN
  /\ calls < MaxCalls
  /\ call' = [op |-> "calculate_crystal_efficiency", raises |-> raises]
  /\ IF raises
     THEN /\ ret' = calculate_crystal_efficiency_except
          /\ UNCHANGED efficiency_history
     ELSE /\ efficiency_history' = history_append(efficiency_history,
               [efficiency |-> efficiency, cache_ratio |-> cache_ratio,
                active_crystals |-> active_crystals])
          /\ ret' = ReturnFloat(efficiency)
  /\ UNCHANGED <<REDIS_AVAILABLE, store, counters, rewards_state>>
  /\ UNCHANGED elsewhere
  /\ Observe

\* ------------------------------------------------------------------- Next
Put ==
  \E category \in Categories, pattern_data \in PatternData,
     metadata \in Metadata, io_fails \in BOOLEAN :
    store_crystal(category, pattern_data, metadata, io_fails)

Get ==
  \E crystal_id \in CrystalIds, io_fails \in BOOLEAN :
    retrieve_crystal(crystal_id, io_fails)

Search ==
  \E category \in Categories \cup {None}, pattern_match \in PatternMatches,
     limit \in 0..MaxLimit, io_fails \in BOOLEAN, crystal_keys \in KeyOrders :
    search_crystals(category, pattern_match, limit, io_fails, crystal_keys)

ComputeSystemEfficiency == calculate_crystal_efficiency(FALSE)

Next == Put \/ Get \/ Search \/ ComputeSystemEfficiency

Spec == Init /\ [][Next]_vars

\* ------------------------------------------------------------- SpecRing
\* calculate_crystal_efficiency run by several threads at once (the monitor
\* thread and the handler of /health), one step per shared-state access:
\* the append of line 246, the test of line 254, the pop of line 255.
calculate_crystal_efficiency_append(t) ==
  LET cache_ratio == cache_ratio_of(cache_performance.hits,
                                    cache_performance.misses)
      active_crystals == active_crystals_of(access_patterns)
      efficiency == efficiency_of(cache_ratio, active_crystals)
  IN
  /\ pc[t] = "idle"
  /\ thread_calls < MaxRingCalls
  /\ efficiency_history' = Append(efficiency_history,
       [efficiency |-> efficiency, cache_ratio |-> cache_ratio,
        active_crystals |-> active_crystals])
  /\ pc' = [pc EXCEPT ![t] = "line254"]
  /\ thread_calls' = thread_calls + 1
  /\ UNCHANGED <<REDIS_AVAILABLE, store, counters, rewards_state, call, ret,
                 history, local, now, outside>>

calculate_crystal_efficiency_len_check(t) ==
  /\ pc[t] = "line254"
  /\ pc' = [pc EXCEPT ![t] = IF history_overflows(efficiency_history)
                             THEN "line255" ELSE "idle"]
  /\ UNCHANGED <<REDIS_AVAILABLE, store, counters, efficiency_history,
                 rewards_state, call, ret, history, local, thread_calls,
                 now, outside>>

calculate_crystal_efficiency_pop(t) ==
  /\ pc[t] = "line255"
  /\ efficiency_history' = list_pop_0(efficiency_history)
  /\ pc' = [pc EXCEPT ![t] = "idle"]
  /\ UNCHANGED <<REDIS_AVAILABLE, store, counters, rewards_state, call, ret,
                 history, local, thread_calls, now, outside>>

\* the in-process backend
InitMemory == Init /\ ~REDIS_AVAILABLE

EfficiencyCallers == {"monitor", "request1"}

EfficiencyAppend ==
  \E t \in EfficiencyCallers : calculate_crystal_efficiency_append(t)

EfficiencyLenCheck ==
  \E t \in EfficiencyCallers : calculate_crystal_efficiency_len_check(t)

EfficiencyPop ==
  \E t \in EfficiencyCallers : calculate_crystal_efficiency_pop(t)

\* a Get of an id nobody stored: the samples before and after it differ
GetAbsent == retrieve_crystal("doesnotexist", FALSE)

NextRing == EfficiencyAppend \/ EfficiencyLenCheck \/ EfficiencyPop \/ GetAbsent

SpecRing == InitMemory /\ [][NextRing]_vars

\* -------------------------------------------------------------- SpecTTL
\* d seconds pass and no call is made
advance_time(d) ==
  /\ now + d <= MaxNowDays * Day
  /\ now' = now + d
  /\ redis' = redis_at(now + d)
  /\ UNCHANGED <<REDIS_AVAILABLE, crystals, counters, efficiency_history,
                 rewards_state, call, ret, history, threads_state,
                 outside>>

\* the Redis backend
InitRedis == Init /\ REDIS_AVAILABLE

PutOne == store_crystal("workflow", "{'step': 1}", "None", FALSE)

GetOne ==
  retrieve_crystal(generate_crystal_id("{'step': 1}", "workflow"), FALSE)

SearchAll ==
  \E crystal_keys \in KeyOrders :
    search_crystals(None, "None", MaxLimit, FALSE, crystal_keys)

Tick == \E d \in {Day, 29 * Day} : advance_time(d)

NextTTL == PutOne \/ GetOne \/ SearchAll \/ Tick

SpecTTL == InitRedis /\ [][NextTTL]_vars

\* The in-process backend and the clock: one id is put and read while days
\* pass between the calls.
IdleTick ==
  \E d \in {Day, RecencyWindow} :
    /\ now + d <= MaxIdleDays * Day
    /\ advance_time(d)

NextIdle == PutOne \/ GetOne \/ SearchAll \/ IdleTick

SpecIdle == InitMemory /\ [][NextIdle]_vars

\* ---------------------------------------------------------- SpecThreads
\* store_crystal and retrieve_crystal run by request-handler threads at once.
\* Nothing in the program takes a lock, so a thread may be switched out
\* between any two accesses to shared state: every "x += 1" is a read step
\* and a write step.  update_access is taken in one step with the lookup.
begin(t, label, locals) ==
  /\ pc[t] = "idle"
  /\ pc' = [pc EXCEPT ![t] = label]
  /\ local' = [local EXCEPT ![t] = locals]
  /\ thread_calls' = thread_calls + 1
  /\ UNCHANGED <<now, outside>>

goto(t, label, locals) ==
  /\ pc' = [pc EXCEPT ![t] = label]
  /\ local' = [local EXCEPT ![t] = locals]
  /\ UNCHANGED <<thread_calls, now, outside>>

\* "return x": the caller sees the result
return(t, call_made) ==
  /\ call' = call_made
  /\ ret' = local[t].result
  /\ pc' = [pc EXCEPT ![t] = "idle"]
  /\ local' = [local EXCEPT ![t] = NoLocals]
  /\ UNCHANGED <<thread_calls, now, outside>>
  /\ Observe

\* lines 123-133: the id, the crystal and the write to the backend
store_crystal_write(t, category, pattern_data, metadata) ==
  LET crystal_id == generate_crystal_id(pattern_data, category)
      crystal == MemoryCrystal(crystal_id, category, pattern_data, metadata)
      write == store_write(crystal, FALSE)
  IN
  /\ begin(t, "line135_read",
           [NoLocals EXCEPT !.crystal_id = crystal_id,
                            !.result = ReturnStr(crystal_id)])
  /\ redis' = write.redis
  /\ crystals' = write.crystals
  /\ UNCHANGED <<REDIS_AVAILABLE, counters, efficiency_history, rewards_state,
                 call, ret, history>>

\* line 135, "crystal_manager.total_operations += 1": the read
store_crystal_count_read(t) ==
  /\ pc[t] = "line135_read"
  /\ goto(t, "line135_write", [local[t] EXCEPT !.tmp = total_operations])
  /\ UNCHANGED <<REDIS_AVAILABLE, store, counters, efficiency_history,
                 rewards_state, call, ret, history>>

\* line 135: the write
store_crystal_count_write(t) ==
  /\ pc[t] = "line135_write"
  /\ total_operations' = local[t].tmp + 1
  /\ goto(t, "line139", local[t])
  /\ UNCHANGED <<REDIS_AVAILABLE, store, access_patterns, cache_performance,
                 efficiency_history, rewards_state, call, ret, history>>

\* lines 139-140: "if total_operations % 10 == 0: reward_broskie_crystals(...)"
store_crystal_milestone(t) ==
  /\ pc[t] = "line139"
  /\ IF total_operations % MilestoneEvery = 0
     THEN goto(t, "line273_read",
               [local[t] EXCEPT !.achievement_type = "storage_milestone",
                                !.value = total_operations,
                                !.resume = "line143"])
     ELSE goto(t, "line143", local[t])
  /\ UNCHANGED <<REDIS_AVAILABLE, store, counters, efficiency_history,
                 rewards_state, call, ret, history>>

\* line 143: return crystal_id
store_crystal_return(t) ==
  /\ pc[t] = "line143"
  /\ return(t, [op |-> "store_crystal", crystal_id |-> local[t].crystal_id,
                io_fails |-> FALSE])
  /\ UNCHANGED <<REDIS_AVAILABLE, store, counters, efficiency_history,
                 rewards_state>>

\* line 273, "crystal_manager.broskie_balance += reward": the read
reward_broskie_crystals_balance_read(t) ==
  /\ pc[t] = "line273_read"
  /\ goto(t, "line273_write", [local[t] EXCEPT !.tmp = broskie_balance])
  /\ UNCHANGED <<REDIS_AVAILABLE, store, counters, efficiency_history,
                 rewards_state, call, ret, history>>

\* line 273: the write
reward_broskie_crystals_balance_write(t) ==
  /\ pc[t] = "line273_write"
  /\ broskie_balance' =
       local[t].tmp + reward_amount(local[t].achievement_type, local[t].value)
  /\ goto(t, "line276", local[t])
  /\ UNCHANGED <<REDIS_AVAILABLE, store, counters, efficiency_history,
                 achievements, call, ret, history>>

\* lines 276-281: the dict literal is built, datetime.now() with it
reward_broskie_crystals_entry(t) ==
  /\ pc[t] = "line276"
  /\ goto(t, "line276_append", [local[t] EXCEPT !.time = now])
  /\ UNCHANGED <<REDIS_AVAILABLE, store, counters, efficiency_history,
                 rewards_state, call, ret, history>>

\* the reward raises, and store_crystal's except clause answers the caller
reward_broskie_crystals_append_raises(t) ==
  /\ pc[t] = "line276_append"
  /\ goto(t, local[t].resume, [local[t] EXCEPT !.result = store_crystal_except])
  /\ UNCHANGED <<REDIS_AVAILABLE, store, counters, efficiency_history,
                 rewards_state, call, ret, history>>

\* line 276: crystal_manager.achievements.append(entry)
reward_broskie_crystals_append(t) ==
  LET reward == reward_amount(local[t].achievement_type, local[t].value) IN
  /\ pc[t] = "line276_append"
  /\ achievements' = Append(achievements,
       [type |-> title(local[t].achievement_type), time |-> local[t].time,
        reward |-> reward, value |-> local[t].value])
  /\ goto(t, local[t].resume, local[t])
  /\ UNCHANGED <<REDIS_AVAILABLE, store, counters, efficiency_history,
                 broskie_balance, call, ret, history>>

\* lines 155-158 and 166-169: the lookup, and update_access on a crystal found
retrieve_crystal_lookup(t, crystal_id) ==
  LET found == IF REDIS_AVAILABLE
               THEN redis_lookup(crystal_id)
               ELSE memory_lookup(crystal_id)
  IN
  /\ begin(t, IF found.hit THEN "hits_read" ELSE "misses_read",
           [NoLocals EXCEPT !.crystal_id = crystal_id,
                            !.result = found.crystal_data])
  /\ crystals' = found.crystals
  /\ UNCHANGED <<REDIS_AVAILABLE, redis, counters, efficiency_history,
                 rewards_state, call, ret, history>>

\* lines 159/162/170/173, "cache_performance[...] += 1": the read
retrieve_crystal_counter_read(t) ==
  /\ pc[t] \in {"hits_read", "misses_read"}
  /\ IF pc[t] = "hits_read"
     THEN goto(t, "hits_write", [local[t] EXCEPT !.tmp = cache_performance.hits])
     ELSE goto(t, "misses_write",
               [local[t] EXCEPT !.tmp = cache_performance.misses])
  /\ UNCHANGED <<REDIS_AVAILABLE, store, counters, efficiency_history,
                 rewards_state, call, ret, history>>

\* the same lines: the write
retrieve_crystal_counter_write(t) ==
  /\ pc[t] \in {"hits_write", "misses_write"}
  /\ cache_performance' =
       IF pc[t] = "hits_write"
       THEN [cache_performance EXCEPT !.hits = local[t].tmp + 1]
       ELSE [cache_performance EXCEPT !.misses = local[t].tmp + 1]
  /\ goto(t, IF local[t].result.py = "dict" THEN "line178_read" ELSE "line181",
          local[t])
  /\ UNCHANGED <<REDIS_AVAILABLE, store, access_patterns, total_operations,
                 efficiency_history, rewards_state, call, ret, history>>

\* line 178, "access_patterns[crystal_id] += 1": the read, which makes a
\* defaultdict insert a missing key with 0
retrieve_crystal_patterns_read(t) ==
  LET crystal_id == local[t].crystal_id
      inserted == [k \in DOMAIN access_patterns \cup {crystal_id} |->
                     IF k \in DOMAIN access_patterns
                     THEN access_patterns[k] ELSE 0]
  IN
  /\ pc[t] = "line178_read"
  /\ access_patterns' = inserted
  /\ goto(t, "line178_write", [local[t] EXCEPT !.tmp = inserted[crystal_id]])
  /\ UNCHANGED <<REDIS_AVAILABLE, store, cache_performance, total_operations,
                 efficiency_history, rewards_state, call, ret, history>>

\* line 178: the write
retrieve_crystal_patterns_write(t) ==
  /\ pc[t] = "line178_write"
  /\ access_patterns' =
       [access_patterns EXCEPT ![local[t].crystal_id] = local[t].tmp + 1]
  /\ goto(t, "line181", local[t])
  /\ UNCHANGED <<REDIS_AVAILABLE, store, cache_performance, total_operations,
                 efficiency_history, rewards_state, call, ret, history>>

\* line 181: return crystal_data
retrieve_crystal_return(t) ==
  /\ pc[t] = "line181"
  /\ return(t, [op |-> "retrieve_crystal", crystal_id |-> local[t].crystal_id,
                io_fails |-> FALSE])
  /\ UNCHANGED <<REDIS_AVAILABLE, store, counters, efficiency_history,
                 rewards_state>>

RequestThreads == {"request1", "request2"}

PutSteps(max_calls) ==
  \E t \in RequestThreads :
    \/ thread_calls < max_calls
         /\ store_crystal_write(t, "workflow", "{'step': 1}", "None")
    \/ store_crystal_count_read(t)
    \/ store_crystal_count_write(t)
    \/ store_crystal_milestone(t)
    \/ store_crystal_return(t)

PutStep == PutSteps(MaxThreadCalls)

RewardStep ==
  \E t \in RequestThreads :
    \/ reward_broskie_crystals_balance_read(t)
    \/ reward_broskie_crystals_balance_write(t)
    \/ reward_broskie_crystals_entry(t)
    \/ reward_broskie_crystals_append(t)

GetSteps(callers, max_calls) ==
  \E t \in callers :
    \/ thread_calls < max_calls
         /\ \E crystal_id \in {generate_crystal_id("{'step': 1}", "workflow"),
                               "doesnotexist"} :
              retrieve_crystal_lookup(t, crystal_id)
    \/ retrieve_crystal_counter_read(t)
    \/ retrieve_crystal_counter_write(t)
    \/ retrieve_crystal_patterns_read(t)
    \/ retrieve_crystal_patterns_write(t)
    \/ retrieve_crystal_return(t)

GetStep == GetSteps(RequestThreads, MaxThreadCalls)

NextThreads == PutStep \/ GetStep

SpecThreads == Init /\ [][NextThreads]_vars

\* -------------------------------------------------------- SpecMilestone
\* Enough Puts for the storage milestone of every tenth write, by two
\* request threads, while the clock runs.
PutToMilestone == PutSteps(MaxMilestoneCalls)

TickSecond == now < MaxSeconds /\ advance_time(1)

NextMilestone == PutToMilestone \/ RewardStep \/ TickSecond

SpecMilestone == Init /\ [][NextMilestone]_vars

\* One Put and then enough Gets for access_count to pass 10, where the
\* time factor of the score stops growing.
PutFirst == PutSteps(1)

GetToCap == GetSteps({"request1"}, MaxHitCalls)

NextHits == PutFirst \/ GetToCap

SpecHits == Init /\ [][NextHits]_vars

\* ------------------------------------------------------------ SpecStall
\* Calls against a Redis server that accepted the connection and may stop
\* answering.  A thread sends a request and sits in the socket's recv until
\* the reply comes or the socket's timeout ends the wait.
\* redis.Redis(...) is given socket_connect_timeout only: the timeout of an
\* established socket keeps its default
socket_timeout == None

\* "setex" of the one payload, "get" of its id, or "keys"
redis_send(t, request) ==
  /\ begin(t, "recv",
           [NoLocals EXCEPT !.request = request,
              !.crystal_id = generate_crystal_id("{'step': 1}", "workflow")])
  /\ UNCHANGED <<REDIS_AVAILABLE, store, counters, efficiency_history,
                 rewards_state, call, ret, history>>

\* the wait ends: with the reply, or with the TimeoutError of the socket,
\* which the function's except clause turns into its error value
redis_recv(t) ==
  LET request == local[t].request
      crystal_id == local[t].crystal_id
      crystal == MemoryCrystal(crystal_id, "workflow", "{'step': 1}", "None")
      found == redis_lookup(crystal_id)
  IN
  /\ pc[t] = "recv"
  /\ redis_answers \/ socket_timeout # None
  /\ IF ~redis_answers
     THEN /\ CASE request = "setex" ->
                    goto(t, "line143",
                         [local[t] EXCEPT !.result = store_crystal_except])
              [] request = "get" ->
                    goto(t, "line181",
                         [local[t] EXCEPT !.result = retrieve_crystal_except])
              [] request = "keys" ->
                    goto(t, "line221",
                         [local[t] EXCEPT !.result = search_crystals_except])
          /\ UNCHANGED redis
     ELSE CASE request = "setex" ->
                 /\ redis' = redis_setex(redis_key(crystal_id),
                                         json_dumps_dict(to_dict(crystal)))
                 /\ goto(t, "line135_read",
                         [local[t] EXCEPT !.result = ReturnStr(crystal_id)])
            [] request = "get" ->
                 /\ UNCHANGED redis
                 /\ goto(t, IF found.hit THEN "hits_read" ELSE "misses_read",
                         [local[t] EXCEPT !.result = found.crystal_data])
            [] request = "keys" ->
                 /\ UNCHANGED redis
                 /\ \E crystal_keys \in KeyOrders :
                      goto(t, "line221",
                           [local[t] EXCEPT !.result =
                              ReturnList(search_results(None, "None", MaxLimit,
                                                        crystal_keys))])
  /\ UNCHANGED <<REDIS_AVAILABLE, crystals, counters, efficiency_history,
                 rewards_state, call, ret, history>>

\* line 221: return results
search_crystals_return(t) ==
  /\ pc[t] = "line221"
  /\ return(t, [op |-> "search_crystals", category |-> None,
                pattern_match |-> "None", limit |-> MaxLimit,
                io_fails |-> FALSE])
  /\ UNCHANGED <<REDIS_AVAILABLE, store, counters, efficiency_history,
                 rewards_state>>

\* the server stops answering; its connections stay open
redis_stalls ==
  /\ redis_answers
  /\ redis_answers' = FALSE
  /\ UNCHANGED <<REDIS_AVAILABLE, store, counters, efficiency_history,
                 rewards_state, call, ret, history, threads_state, now,
                 health_service>>

StallSend ==
  \E t \in RequestThreads, request \in {"setex", "get", "keys"} :
    thread_calls < MaxStallCalls /\ redis_send(t, request)

StallRecv == \E t \in RequestThreads : redis_recv(t)

\* the steps of a call after its reply
StallRest ==
  \E t \in RequestThreads :
    \/ store_crystal_count_read(t)
    \/ store_crystal_count_write(t)
    \/ store_crystal_milestone(t)
    \/ store_crystal_return(t)
    \/ retrieve_crystal_counter_read(t)
    \/ retrieve_crystal_counter_write(t)
    \/ retrieve_crystal_patterns_read(t)
    \/ retrieve_crystal_patterns_write(t)
    \/ retrieve_crystal_return(t)
    \/ search_crystals_return(t)

RedisStalls == redis_stalls

NextStall == StallSend \/ StallRecv \/ StallRest \/ RedisStalls

\* a thread that can take a step takes it; the server owes nothing
SpecStall ==
  /\ InitRedis
  /\ [][NextStall]_vars
  /\ WF_vars(StallRecv)
  /\ WF_vars(StallRest)

\* ---------------------------------------------------------- SpecMonitor
\* x > n for a rational x
rat_gt(x, n) == x.n > n * x.d

\* reward_broskie_crystals as a function of the balance and the log
rewarded(rs, achievement_type, value) ==
  LET reward == reward_amount(achievement_type, value) IN
  [broskie_balance |-> rs.broskie_balance + reward,
   achievements |-> Append(rs.achievements,
      [type |-> title(achievement_type), time |-> now, reward |-> reward,
       value |-> value])]

\* threading.Thread(target=background_efficiency_monitor).start()
monitor_start ==
  /\ pc["monitor"] = "idle"
  /\ pc' = [pc EXCEPT !["monitor"] = "line587"]
  /\ UNCHANGED <<REDIS_AVAILABLE, store, counters, efficiency_history,
                 rewards_state, call, ret, history, local, thread_calls, now,
                 outside>>

\* One pass through the try block of the loop: lines 587-599.  in_600 and
\* in_900 are "time.time() % 600 < 60" and "time.time() % 900 < 60"; raises
\* is an exception leaving line 590, after the efficiency was computed.
monitor_iteration(raises, in_600, in_900) ==
  LET hits == cache_performance.hits
      misses == cache_performance.misses
      cache_ratio == cache_ratio_of(hits, misses)
      active_crystals == active_crystals_of(access_patterns)
      efficiency == efficiency_of(cache_ratio, active_crystals)
      rs0 == [broskie_balance |-> broskie_balance,
              achievements |-> achievements]
      rs1 == IF rat_gt(efficiency, 90) /\ in_600
             THEN rewarded(rs0, "high_efficiency", efficiency)
             ELSE rs0
      hit_rate == RatMul(Rat(hits, hits + misses), Rat(100, 1))
      rs2 == IF hits > 0 /\ rat_gt(hit_rate, 95) /\ in_900
             THEN rewarded(rs1, "cache_champion", hit_rate)
             ELSE rs1
  IN
  /\ pc["monitor"] = "line587"
  /\ efficiency_history' = history_append(efficiency_history,
       [efficiency |-> efficiency, cache_ratio |-> cache_ratio,
        active_crystals |-> active_crystals])
  /\ IF raises
     THEN \* except Exception: time.sleep(30)
          /\ UNCHANGED rewards_state
          /\ pc' = [pc EXCEPT !["monitor"] = "line605"]
          /\ local' = [local EXCEPT !["monitor"] =
                         [NoLocals EXCEPT !.result = reraise,
                                          !.tmp = SleepBackoff]]
     ELSE \* time.sleep(60)
          /\ broskie_balance' = rs2.broskie_balance
          /\ achievements' = rs2.achievements
          /\ pc' = [pc EXCEPT !["monitor"] = "line601"]
          /\ local' = [local EXCEPT !["monitor"] =
                         [NoLocals EXCEPT !.tmp = SleepInterval]]
  /\ UNCHANGED <<REDIS_AVAILABLE, store, counters, call, ret, history,
                 thread_calls, now, outside>>

\* the loop ends once an iteration has failed
monitor_wake_unless_failed ==
  /\ pc["monitor"] \in {"line601", "line605"}
  /\ pc' = [pc EXCEPT !["monitor"] =
              IF pc["monitor"] = "line605" THEN "exited" ELSE "line587"]
  /\ local' = [local EXCEPT !["monitor"] = NoLocals]
  /\ UNCHANGED <<REDIS_AVAILABLE, store, counters, efficiency_history,
                 rewards_state, call, ret, history, thread_calls, now,
                 outside>>

\* time.sleep returns, and "while True" starts the next iteration
monitor_wake ==
  /\ pc["monitor"] \in {"line601", "line605"}
  /\ pc' = [pc EXCEPT !["monitor"] = "line587"]
  /\ local' = [local EXCEPT !["monitor"] = NoLocals]
  /\ UNCHANGED <<REDIS_AVAILABLE, store, counters, efficiency_history,
                 rewards_state, call, ret, history, thread_calls, now,
                 outside>>

MonitorStart == monitor_start

MonitorIteration ==
  \E raises \in BOOLEAN, in_600 \in BOOLEAN, in_900 \in BOOLEAN :
    monitor_iteration(raises, in_600, in_900)

MonitorWake == monitor_wake

NextMonitor == MonitorStart \/ MonitorIteration \/ MonitorWake

\* a started thread is scheduled, and a sleep comes to its end
SpecMonitor ==
  /\ Init
  /\ [][NextMonitor]_vars
  /\ WF_vars(MonitorStart)
  /\ WF_vars(MonitorIteration)
  /\ WF_vars(MonitorWake)

\* ------------------------------------------------ legendary-health-service
\* The health service is another process with its own state object and
\* threads; it shares the wall clock.  An evaluation is
\* calculate_comprehensive_health, which ends in check_broskie_rewards; the
\* latter runs without a lock and is taken line by line.

\* the overall scores an evaluation may compute
HealthScores == {90, 96, 99}

\* what the store's process holds
crystal_service ==
  <<REDIS_AVAILABLE, store, counters, efficiency_history, rewards_state, call,
    ret, history, threads_state, redis_answers>>

health_goto(t, label, locals) ==
  /\ health_pc' = [health_pc EXCEPT ![t] = label]
  /\ health_local' = [health_local EXCEPT ![t] = locals]
  /\ UNCHANGED <<health_calls, crystal_service, now>>

health_achievement(achievement_type, reward) ==
  [type |-> achievement_type, time |-> now, reward |-> reward]

\* the log entries of one type
entries_of(achievement_type) ==
  {i \in 1..Len(legendary_state.achievements) :
     legendary_state.achievements[i].type = achievement_type}

\* current_time - legendary_state.last_reward_time > cooldown
cooldown_over(current_time, cooldown) ==
  current_time - legendary_state.last_reward_time > cooldown

\* lines 64-135 and 156-157: the score is computed and stored, and
\* check_broskie_rewards reads the clock.  excellent: some component scored
\* above 95 and random.random() came out below 0.1.
health_evaluation(t, from, health_score, excellent) ==
  /\ health_pc[t] = from
  /\ health_calls' = health_calls + 1
  /\ legendary_state' = [legendary_state EXCEPT !.health_score = health_score]
  /\ health_pc' = [health_pc EXCEPT ![t] = "line161"]
  /\ health_local' =
       [health_local EXCEPT ![t] =
          [health_score |-> health_score, excellent |-> excellent,
           current_time |-> now, rewards_earned |-> 0, tmp |-> 0]]
  /\ UNCHANGED <<crystal_service, now>>

\* an evaluation made by a request handler or by the monitor, at any time
calculate_comprehensive_health(t, health_score, excellent) ==
  /\ health_calls < MaxHealthCalls
  /\ health_evaluation(t, "idle", health_score, excellent)

\* lines 161-169
check_broskie_rewards_high(t) ==
  /\ health_pc[t] = "line161"
  /\ LET l == health_local[t]
         earned == /\ l.health_score > HighThreshold
                   /\ cooldown_over(l.current_time, HighCooldown)
     IN
     /\ legendary_state' =
          IF earned
          THEN [legendary_state EXCEPT !.achievements =
                  Append(@, health_achievement("High Performance", HighReward))]
          ELSE legendary_state
     /\ health_goto(t, "line172",
                    IF earned
                    THEN [l EXCEPT !.rewards_earned = @ + HighReward]
                    ELSE l)

\* lines 172-180
check_broskie_rewards_legendary(t) ==
  /\ health_pc[t] = "line172"
  /\ LET l == health_local[t]
         earned == /\ l.health_score > LegendaryThreshold
                   /\ cooldown_over(l.current_time, LegendaryCooldown)
     IN
     /\ legendary_state' =
          IF earned
          THEN [legendary_state EXCEPT !.achievements =
                  Append(@, health_achievement("Legendary Performance",
                                               LegendaryReward))]
          ELSE legendary_state
     /\ health_goto(t, "line183",
                    IF earned
                    THEN [l EXCEPT !.rewards_earned = @ + LegendaryReward]
                    ELSE l)

\* lines 183-192, for the one component that may be rewarded
check_broskie_rewards_components(t) ==
  /\ health_pc[t] = "line183"
  /\ LET l == health_local[t] IN
     /\ legendary_state' =
          IF l.excellent
          THEN [legendary_state EXCEPT !.achievements =
                  Append(@, health_achievement("Cpu Excellence",
                                               ComponentReward))]
          ELSE legendary_state
     /\ health_goto(t, "line194",
                    IF l.excellent
                    THEN [l EXCEPT !.rewards_earned = @ + ComponentReward]
                    ELSE l)

\* lines 194-195: the test, and the read of "broskie_balance += rewards_earned"
check_broskie_rewards_balance_read(t) ==
  /\ health_pc[t] = "line194"
  /\ LET l == health_local[t] IN
     /\ UNCHANGED legendary_state
     /\ IF l.rewards_earned > 0
        THEN health_goto(t, "line195_write",
                         [l EXCEPT !.tmp = legendary_state.broskie_balance])
        ELSE health_goto(t, "idle", NoHealthLocals)

\* line 195: the write of "broskie_balance += rewards_earned"
check_broskie_rewards_balance_write(t) ==
  /\ health_pc[t] = "line195_write"
  /\ LET l == health_local[t] IN
     /\ legendary_state' =
          [legendary_state EXCEPT !.broskie_balance = l.tmp + l.rewards_earned]
     /\ health_goto(t, "line197", l)

\* line 197, and the return
check_broskie_rewards_last_reward_time(t) ==
  /\ health_pc[t] = "line197"
  /\ legendary_state' =
       [legendary_state EXCEPT
          !.last_reward_time = health_local[t].current_time]
  /\ health_goto(t, "idle", NoHealthLocals)

HealthEvaluate ==
  \E t \in HealthThreads, health_score \in HealthScores,
     excellent \in BOOLEAN :
    calculate_comprehensive_health(t, health_score, excellent)

HealthRewardStep ==
  \E t \in HealthThreads :
    \/ check_broskie_rewards_high(t)
    \/ check_broskie_rewards_legendary(t)
    \/ check_broskie_rewards_components(t)
    \/ check_broskie_rewards_balance_read(t)
    \/ check_broskie_rewards_balance_write(t)
    \/ check_broskie_rewards_last_reward_time(t)

\* The clock goes on by a sleep of the monitor loop; check_broskie_rewards
\* neither sleeps nor waits, so no call of it lasts that long.
HealthTick ==
  \E d \in {SleepBackoff, SleepInterval} :
    /\ \A t \in HealthThreads : health_pc[t] = "idle"
    /\ now + d <= MaxHealthSeconds
    /\ advance_time(d)

NextHealth == HealthEvaluate \/ HealthRewardStep \/ HealthTick

SpecHealth == Init /\ [][NextHealth]_vars

\* --------------------------------------------------------- SpecHealthLive
\* The loop of background_health_monitor alone, with a score that stays at
\* 99: an evaluation, time.sleep(60), the next evaluation.  "line419" is
\* the head of the loop; an evaluation that has returned leaves the thread
\* at "idle", where its sleep begins.

\* monitor_thread.start(): the thread reaches the loop
background_health_monitor_start ==
  /\ health_calls = 0
  /\ health_pc["monitor"] = "idle"
  /\ UNCHANGED legendary_state
  /\ health_goto("monitor", "line419", NoHealthLocals)

\* line 419: the evaluation of one iteration.  The component reward is a
\* matter of chance; the log holds at most MaxLucky of them.
background_health_monitor_evaluate(excellent) ==
  /\ excellent => Cardinality(entries_of("Cpu Excellence")) < MaxLucky
  /\ health_evaluation("monitor", "line419", 99, excellent)

\* line 431: time.sleep(60), after which the loop starts over
background_health_monitor_sleep ==
  /\ health_calls > 0
  /\ health_pc["monitor"] = "idle"
  /\ now + SleepInterval <= MaxLiveSeconds
  /\ now' = now + SleepInterval
  /\ redis' = redis_at(now + SleepInterval)
  /\ health_pc' = [health_pc EXCEPT !["monitor"] = "line419"]
  /\ UNCHANGED <<REDIS_AVAILABLE, crystals, counters, efficiency_history,
                 rewards_state, call, ret, history, threads_state,
                 redis_answers, legendary_state, health_local, health_calls>>

HealthMonitorStart == background_health_monitor_start

HealthMonitorEvaluate ==
  \E excellent \in BOOLEAN : background_health_monitor_evaluate(excellent)

HealthMonitorSleep == background_health_monitor_sleep

NextHealthLive ==
  \/ HealthMonitorStart
  \/ HealthMonitorEvaluate
  \/ HealthRewardStep
  \/ HealthMonitorSleep

\* the monitor thread is scheduled again and again
SpecHealthLive ==
  /\ Init
  /\ [][NextHealthLive]_vars
  /\ WF_vars(NextHealthLive)

\* ----------------------------------------------------------- SpecFaults
\* Callers of the Python functions themselves: payloads json has no encoding
\* for, and a failure at any step of any call.
PutAnyPayload ==
  \E pattern_data \in {"{'step': 1}"} \cup Unserializable,
     metadata \in {"None"} \cup Unserializable, io_fails \in BOOLEAN :
    store_crystal("workflow", pattern_data, metadata, io_fails)

GetFaults ==
  \E crystal_id \in {generate_crystal_id("{'step': 1}", "workflow"),
                     "doesnotexist"},
     io_fails \in BOOLEAN :
    retrieve_crystal(crystal_id, io_fails)

SearchFaults ==
  \E pattern_match \in PatternMatches, io_fails \in BOOLEAN,
     crystal_keys \in KeyOrders :
    search_crystals(None, pattern_match, MaxLimit, io_fails, crystal_keys)

ComputeSystemEfficiencyFaults ==
  \E raises \in BOOLEAN : calculate_crystal_efficiency(raises)

NextFaults ==
  PutAnyPayload \/ GetFaults \/ SearchFaults \/ ComputeSystemEfficiencyFaults

SpecFaults == Init /\ [][NextFaults]_vars

\* ====================================================================
\* Properties
\* ====================================================================
IsCall(op) == call.op = op

\* the number of records the backend in use holds
record_count ==
  IF REDIS_AVAILABLE THEN Cardinality(DOMAIN redis) ELSE Len(crystals)

\* what retrieve_crystal answers for an id that is absent
NotFound == ReturnNone

\* C1 (as claimed): ComputeSystemEfficiency called while the hit counter and
\* the miss counter are both zero returns exactly 100.
C1_ZeroRequestsReturn100 ==
  (IsCall("calculate_crystal_efficiency")
     /\ cache_performance.hits = 0 /\ cache_performance.misses = 0)
    => ret = ReturnFloat(Rat(100, 1))

\* C1 (amended): ComputeSystemEfficiency called while the hit counter and the
\* miss counter are both zero returns exactly 60: the hit ratio defaults to
\* 100 and weighs 0.6, and the activity term is 0 since no id was ever hit.
C1_ZeroRequestsReturn60 ==
  (IsCall("calculate_crystal_efficiency")
     /\ cache_performance.hits = 0 /\ cache_performance.misses = 0)
    => /\ ret = ReturnFloat(Rat(60, 1))
       /\ efficiency_history[Len(efficiency_history)].cache_ratio = Rat(100, 1)
       /\ efficiency_history[Len(efficiency_history)].active_crystals = 0

C1_Witness ==
  /\ IsCall("calculate_crystal_efficiency")
  /\ cache_performance.hits = 0 /\ cache_performance.misses = 0
  /\ total_operations > 0

\* C2: once a Get has hit or missed, ComputeSystemEfficiency returns
\* 0.6 x (100 x h/(h+m)) + 0.4 x min(100, 2a), with h the Gets that returned
\* a record, m the Gets that found none and a the distinct ids that were
\* returned; the result lies in [0, 100].
C2_EfficiencyFormula ==
  (IsCall("calculate_crystal_efficiency") /\ gets_hit + gets_missed >= 1)
    => LET h == gets_hit
           m == gets_missed
           a == Cardinality(ids_hit)
       IN /\ ret.py = "float"
          /\ ret.n * (10 * (h + m))
               = (6 * 100 * h + 4 * Min(100, 2 * a) * (h + m)) * ret.d
          /\ RatLeq(Rat(0, 1), ret) /\ RatLeq(ret, Rat(100, 1))

\* Put, one Get hit, one Get miss: hit ratio 50, a = 1, result 30.8
C2_Witness ==
  /\ IsCall("calculate_crystal_efficiency")
  /\ gets_hit = 1 /\ gets_missed = 1 /\ Cardinality(ids_hit) = 1
  /\ efficiency_history[Len(efficiency_history)].cache_ratio = Rat(50, 1)
  /\ ret = ReturnFloat(Rat(308, 10))

\* C3: a Put that follows a successful Put of the same (category,
\* pattern_data) returns the same id and adds no record (either backend); it
\* returns no id only when the backend write fails.
C3_PutTwiceSameId ==
  [][(/\ IsCall("store_crystal") /\ ret.py = "str"
      /\ call'.op = "store_crystal"
      /\ call'.category = call.category
      /\ call'.pattern_data = call.pattern_data)
     => /\ record_count' = record_count
        /\ ret'.py = "str" => ret' = ret
        /\ ~call'.io_fails => ret'.py = "str"]_vars

C3_Witness ==
  /\ IsCall("store_crystal") /\ ret.py = "str"
  /\ total_operations = 2
  /\ record_count = 1

\* C4 (as claimed): a Get issued right after Put(category, pattern_data,
\* metadata) returned the id yields a record whose pattern_data and metadata
\* equal the values passed to Put, falsy values included.
C4_GetAfterPutRoundTrip ==
  [][(/\ IsCall("store_crystal") /\ ret.py = "str"
      /\ call'.op = "retrieve_crystal"
      /\ call'.crystal_id = ret.s
      /\ ~call'.io_fails)
     => /\ ret'.py = "dict"
        /\ ret'.pattern_data = call.pattern_data
        /\ ret'.metadata = call.metadata]_vars

\* C5: a Get of an id no Put ever returned, with the backend answering,
\* returns NotFound, raises the miss counter by exactly 1 and leaves the hit
\* counter, the write counter, the access tallies and every record unchanged.
C5_GetNeverWritten ==
  [][(/\ call'.op = "retrieve_crystal"
      /\ ~call'.io_fails
      /\ call'.crystal_id \notin written)
     => /\ ret' = NotFound
        /\ cache_performance'.misses = cache_performance.misses + 1
        /\ cache_performance'.hits = cache_performance.hits
        /\ UNCHANGED <<total_operations, access_patterns, crystals, redis>>]_vars

C5_Witness ==
  /\ IsCall("retrieve_crystal") /\ ~call.io_fails
  /\ call.crystal_id \notin written
  /\ written # {}
  /\ cache_performance.misses = 2

\* C6: with the in-process backend, the record the n-th successful Get of an
\* id returns, counting from the last Put of that id, has access_count n,
\* whatever was done to other ids or searched in between.
C6_AccessCountIsHitsSincePut ==
  (~REDIS_AVAILABLE /\ IsCall("retrieve_crystal") /\ ret.py = "dict")
    => ret.access_count = hits_since_put[call.crystal_id]

C6_Witness ==
  /\ ~REDIS_AVAILABLE
  /\ IsCall("retrieve_crystal") /\ ret.py = "dict"
  /\ ret.access_count = 2
  /\ total_operations = 2

\* C7 (as claimed): Search(category=C, limit=L), L >= 0, returns at most L
\* records, each of category C, under either backend.
C7_SearchWithinLimit ==
  (IsCall("search_crystals") /\ call.category \in Categories)
    => /\ Len(ret.items) <= call.limit
       /\ \A i \in 1..Len(ret.items) : ret.items[i].category = call.category

\* C8 (as claimed): with the in-process backend a Put over a stored record
\* does not reset its access_count, so every Get returns the number of hits
\* the id ever had (k + 1 after k earlier hits and an overwriting Put).
C8_OverwriteKeepsAccessCount ==
  (~REDIS_AVAILABLE /\ IsCall("retrieve_crystal") /\ ret.py = "dict")
    => ret.access_count = hits_ever[call.crystal_id]

\* C8 (amended): with the in-process backend a Put over a stored record
\* replaces it by a fresh record with access_count 0: the Get issued right
\* after k >= 1 earlier hits and such a Put returns access_count 1, while the
\* manager's tally for the id goes on to k + 1.
C8_OverwriteResetsAccessCount ==
  [][(/\ ~REDIS_AVAILABLE
      /\ IsCall("store_crystal") /\ ret.py = "str"
      /\ hits_ever[ret.s] >= 1
      /\ call'.op = "retrieve_crystal"
      /\ call'.crystal_id = ret.s)
     => /\ ret'.py = "dict"
        /\ ret'.access_count = 1
        /\ access_patterns'[ret.s] = hits_ever[ret.s] + 1]_vars

C8_Witness ==
  /\ ~REDIS_AVAILABLE
  /\ IsCall("retrieve_crystal") /\ ret.py = "dict"
  /\ ret.access_count = 1
  /\ hits_ever[call.crystal_id] = 2

\* C9: a Put whose backend write fails returns no id and leaves the write
\* counter, the hit and miss counters, the reward balance, the achievement
\* log and the records as they were; a Put whose write does not fail returns
\* an id.
C9_FailedPutChangesNothing ==
  [][(call'.op = "store_crystal")
     => IF call'.io_fails
        THEN /\ ret' = ReturnNone
             /\ UNCHANGED <<total_operations, cache_performance,
                            broskie_balance, achievements, crystals, redis,
                            access_patterns>>
        ELSE ret'.py = "str"]_vars

C9_Witness ==
  /\ IsCall("store_crystal") /\ call.io_fails
  /\ ret = ReturnNone
  /\ total_operations = 1
  /\ record_count = 1

\* C10 (as claimed): a Get whose backend read fails answers its caller with
\* something other than NotFound, and leaves the hit counter, the miss
\* counter and the access tallies unchanged.
C10_ReadFailureIsNotNotFound ==
  [][(call'.op = "retrieve_crystal" /\ call'.io_fails)
     => /\ ret' # NotFound
        /\ UNCHANGED <<cache_performance, access_patterns>>]_vars

\* C11 (as claimed): under either backend a Put whose pattern_data or whose
\* metadata has no JSON encoding returns the error value, stores no record
\* and changes no counter.
C11_MalformedPutRejected ==
  [][(call'.op = "store_crystal" /\ calls' = calls + 1
        /\ (~json_serializable(call'.pattern_data)
              \/ ~json_serializable(call'.metadata)))
     => /\ ret' = store_crystal_except
        /\ UNCHANGED <<store, counters, rewards_state>>]_vars

\* C12: no call lets an exception out.  Put returns an id or None, Get a
\* record or None, Search a list, ComputeSystemEfficiency a float, whatever
\* step of the call failed.
C12_NoFaultEscapes ==
  /\ IsCall("store_crystal") => ret.py \in {"str", "NoneType"}
  /\ IsCall("retrieve_crystal") => ret.py \in {"dict", "NoneType"}
  /\ IsCall("search_crystals") => ret.py = "list"
  /\ IsCall("calculate_crystal_efficiency") => ret.py = "float"

\* a Search whose backend call failed while records were stored
C12_Witness ==
  /\ IsCall("search_crystals")
  /\ call.io_fails
  /\ record_count >= 1
  /\ ret = ReturnList(<<>>)

\* C13: the backend is chosen once, at import, and never changes: no call
\* alters REDIS_AVAILABLE, and every call works on the backend the flag
\* names, so the in-process dict stays untouched under Redis and the Redis
\* keyspace stays untouched without it, failed calls included.
C13_BackendFixedAtImport ==
  [][/\ REDIS_AVAILABLE' = REDIS_AVAILABLE
     /\ REDIS_AVAILABLE => crystals' = crystals
     /\ ~REDIS_AVAILABLE => redis' = redis]_vars

\* under Redis a Put has just failed after an earlier one was stored, and
\* the in-process dict is still empty
C13_Witness ==
  /\ REDIS_AVAILABLE
  /\ IsCall("store_crystal")
  /\ call.io_fails
  /\ ret = store_crystal_except
  /\ record_count >= 1
  /\ crystals = <<>>

\* no calculate_crystal_efficiency call stands between its append and the
\* end of its trim
efficiency_quiescent(p) == \A t \in Threads : p[t] \notin {"line254", "line255"}

quiescent == \A t \in Threads : pc[t] = "idle"

\* C15 (as claimed): after any interleaving of completed Puts and Gets with
\* no backend failure, hits + misses is the number of completed Gets and the
\* write counter is the number of completed Puts: no update is lost.
C15_NoLostUpdate ==
  quiescent =>
    /\ cache_performance.hits + cache_performance.misses
         = gets_hit + gets_missed
    /\ total_operations = puts_done

\* C16: under Redis a record expires 30 days after the most recent Put of
\* its id.  A Put that succeeds sets the expiry to 30 days from now, a Get
\* or a Search leaves every expiry as it is, and a Get the backend answers
\* returns the record exactly when the id was last Put less than 30 days
\* ago; otherwise it returns NotFound and counts one miss.
C16_ExpiresThirtyDaysAfterLastPut ==
  [][/\ (call'.op = "store_crystal" /\ calls' = calls + 1 /\ ret'.py = "str")
          => redis'[redis_key(ret'.s)].expires_at = now + 30 * Day
     /\ (call'.op \in {"retrieve_crystal", "search_crystals"}
           /\ calls' = calls + 1)
          => redis' = redis
     /\ (call'.op = "retrieve_crystal" /\ calls' = calls + 1
           /\ ~call'.io_fails /\ REDIS_AVAILABLE)
          => LET last == put_at[call'.crystal_id] IN
             IF last >= 0 /\ now - last < 30 * Day
             THEN /\ ret'.py = "dict"
                  /\ ret'.crystal_id = call'.crystal_id
             ELSE /\ ret' = NotFound
                  /\ cache_performance'.misses = cache_performance.misses + 1
                  /\ cache_performance'.hits = cache_performance.hits]_vars

\* a Get returned NotFound for an id that was Put twice, 29 days apart, and
\* read after the first Put's 30 days were over: the second Put refreshed
\* the expiry, no Get did, and now the second Put's 30 days are over too
C16_Witness ==
  /\ REDIS_AVAILABLE
  /\ IsCall("retrieve_crystal")
  /\ ret = NotFound
  /\ call.crystal_id \in ids_hit
  /\ puts_done = 2
  /\ put_at[call.crystal_id] = 29 * Day
  /\ now = 59 * Day

\* C17 (as claimed): in the achievement log every entry's timestamp is
\* strictly greater than that of the entry before it, also when rewards are
\* fired by concurrent callers.
C17_LogStrictlyTimeOrdered ==
  \A i \in 2..Len(achievements) :
    achievements[i].time > achievements[i - 1].time

\* C18: the reward gate is observational only.  A step that changes the
\* balance or the achievement log changes nothing else of the store, the
\* counters or the efficiency history, and every Put hands its caller the id
\* of its payload, whether or not that Put fired the storage milestone.
C18_RewardGateObservational ==
  [][/\ (achievements' # achievements \/ broskie_balance' # broskie_balance)
          => UNCHANGED <<store, counters, efficiency_history, call, ret>>
     /\ \A t \in RequestThreads :
          (pc[t] = "line143" /\ pc'[t] = "idle")
            => /\ ret' = ReturnStr(generate_crystal_id("{'step': 1}", "workflow"))
               /\ ret'.s = local[t].crystal_id
               /\ record_count = 1
               /\ UNCHANGED <<store, counters, rewards_state>>]_vars

\* the tenth Put has just returned its id, having fired the milestone
C18_Witness ==
  /\ quiescent
  /\ IsCall("store_crystal")
  /\ ret = ReturnStr(generate_crystal_id("{'step': 1}", "workflow"))
  /\ puts_done = 10
  /\ total_operations = 10
  /\ Len(achievements) = 1
  /\ achievements[1].type = "Storage Milestone"
  /\ broskie_balance = 100

\* the rewards a log adds up to
RECURSIVE sum_rewards(_)
sum_rewards(log) ==
  IF log = <<>> THEN 0 ELSE Head(log).reward + sum_rewards(Tail(log))

\* C19 (as claimed): whenever no call is in progress the balance equals the
\* sum of the reward fields of all achievement log entries.
C19_BalanceIsSumOfRewards ==
  quiescent => broskie_balance = sum_rewards(achievements)

\* C20: the monitor never stops.  An iteration that raises ends in the
\* handler, which sleeps the 30 s of the backoff where a clean iteration
\* sleeps 60 s; every sleep is followed by another iteration; and at every
\* point of a run a further recomputation of the efficiency happens later.
C20_MonitorNeverStops ==
  /\ [][pc["monitor"] = "line587" /\ pc'["monitor"] # "line587"
          => IF local'["monitor"].result = reraise
             THEN pc'["monitor"] = "line605"
                    /\ local'["monitor"].tmp = 30
             ELSE pc'["monitor"] = "line601"
                    /\ local'["monitor"].tmp = 60]_vars
  /\ [][pc["monitor"] \in {"line601", "line605"}
          => pc'["monitor"] \in {pc["monitor"], "line587"}]_vars
  /\ []<><<MonitorIteration>>_vars

\* an iteration has just failed, after earlier ones filled part of the
\* history, and the monitor sleeps its backoff
C20_Witness ==
  /\ pc["monitor"] = "line605"
  /\ local["monitor"].result = reraise
  /\ local["monitor"].tmp = SleepBackoff
  /\ Len(efficiency_history) >= 2

\* C21 (as claimed): no call against Redis blocks for ever.  A thread that is
\* inside a Put, a Get or a Search eventually returns to its caller, also
\* when the server has stopped answering.
C21_EveryCallReturns ==
  /\ (pc["request1"] # "idle") ~> (pc["request1"] = "idle")
  /\ (pc["request2"] # "idle") ~> (pc["request2"] = "idle")

\* C22 (as claimed): after any interleaving of concurrent Puts the log holds
\* one 'Storage Milestone' entry per multiple of 10 the write counter has
\* reached, and the k-th of them has value 10k and reward 100k.
C22_MilestoneExactlyOnce ==
  quiescent =>
    /\ Len(achievements) = total_operations \div 10
    /\ \A k \in 1..Len(achievements) :
         /\ achievements[k].type = "Storage Milestone"
         /\ achievements[k].value = 10 * k
         /\ achievements[k].reward = 100 * k

\* C23 (as claimed): under either backend a Search with limit L looks at no
\* more than 2 x L stored entries, however many records the store holds and
\* in whatever order the keys come.
C23_SearchExaminesAtMostTwiceLimit ==
  (IsCall("search_crystals") /\ ~call.io_fails)
    => \A crystal_keys \in KeyOrders :
         search_examined(call.category, call.pattern_match, call.limit,
                         crystal_keys) <= 2 * call.limit

\* the records of the backend in use, in the order a scan meets them
stored_records(crystal_keys) ==
  IF REDIS_AVAILABLE
  THEN [i \in 1..Len(crystal_keys) |->
          json_loads_dict(redis_get(crystal_keys[i]))]
  ELSE crystals

\* how many stored records pass the filters
matching_count(category, pattern_match) ==
  LET records == stored_records(CHOOSE s \in KeyOrders : TRUE) IN
  Cardinality({i \in 1..Len(records) :
                 ~filtered_out(category, pattern_match, records[i].category,
                               json_dumps(records[i].pattern_data))})

\* C24 (as claimed): for the same stored records and the same arguments the
\* Redis Search and the in-process Search return the same number of
\* records, namely min(limit, number of stored records passing the filters).
C24_SearchSameCountOnBothBackends ==
  (IsCall("search_crystals") /\ ~call.io_fails)
    => /\ Len(ret.items)
            = Min(call.limit, matching_count(call.category, call.pattern_match))
       /\ REDIS_AVAILABLE =>
            \A crystal_keys \in KeyOrders :
              Len(redis_scan(slice_to(crystal_keys, call.limit * 2),
                             call.category, call.pattern_match, call.limit,
                             <<>>))
                = Len(memory_scan(stored_records(crystal_keys), call.category,
                                  call.pattern_match, call.limit, <<>>))

\* a step that is a Get hit under the in-process backend
memory_get_hit ==
  /\ ~REDIS_AVAILABLE
  /\ calls' = calls + 1
  /\ call'.op = "retrieve_crystal"
  /\ ret'.py = "dict"

\* C25 (as claimed): the score recomputed on a Get hit decays linearly with
\* the time the record had gone without an access: it is
\* 100 x (0.6 x min(1, access_count/10) + 0.4 x max(0.1, 1 - idle/7 days)),
\* idle being the time since the previous access, so that after 7 idle days
\* or more it is 100 x (0.6 x min(1, access_count/10) + 0.04).
C25_ScoreDecaysWithIdleTime ==
  [][memory_get_hit
     => LET idle == now - dict_get(crystals, call'.crystal_id).last_accessed
        IN ret'.efficiency_score
             = efficiency_score_of(ret'.access_count, idle)]_vars

\* a score within [0, 100]
score_in_range(x) == RatLeq(Rat(0, 1), x) /\ RatLeq(x, Rat(100, 1))

\* C26: every stored record, in the process or in Redis, has
\* access_count >= 0 and efficiency_score within [0, 100]; and the record a
\* Get hit returns under the in-process backend has efficiency_score > 0 and
\* access_count >= 1.
C26_ScoreAndCountInRange ==
  /\ \A i \in 1..Len(crystals) :
       /\ crystals[i].access_count >= 0
       /\ score_in_range(crystals[i].efficiency_score)
  /\ \A key \in DOMAIN redis :
       /\ redis[key].data.access_count >= 0
       /\ score_in_range(redis[key].data.efficiency_score)
  /\ (~REDIS_AVAILABLE /\ IsCall("retrieve_crystal") /\ ret.py = "dict")
       => /\ RatLeq(Rat(0, 1), ret.efficiency_score)
          /\ ret.efficiency_score # Rat(0, 1)
          /\ ret.access_count >= 1

\* the eleventh hit on a record: the score is at its top
C26_Witness ==
  /\ ~REDIS_AVAILABLE
  /\ IsCall("retrieve_crystal") /\ ret.py = "dict"
  /\ ret.access_count = 11
  /\ ret.efficiency_score = Rat(100, 1)
  /\ \E i \in 1..Len(crystals) : crystals[i].access_count = 11

\* C27 (as claimed): with Redis a Get hit counts the access as the in-process
\* backend does, so the n-th hit on an id since its last Put returns
\* access_count n, the second of two hits one more than the first.
C27_RedisGetCountsAccess ==
  (REDIS_AVAILABLE /\ IsCall("retrieve_crystal") /\ ret.py = "dict")
    => ret.access_count = hits_since_put[call.crystal_id]

\* C27 (amended): with Redis a Get hit returns the record as the last Put
\* wrote it and writes nothing back: access_count 0, efficiency_score 0.0
\* and the last_accessed of the Put, on the record returned and on the one
\* stored, however many hits came before.
C27_RedisGetReturnsSnapshot ==
  (REDIS_AVAILABLE /\ IsCall("retrieve_crystal") /\ ret.py = "dict")
    => /\ redis_key(call.crystal_id) \in DOMAIN redis
            => ret = json_loads_dict(redis_get(redis_key(call.crystal_id)))
       /\ ret.access_count = 0
       /\ ret.efficiency_score = Rat(0, 1)
       /\ ret.last_accessed = isoformat(put_at[call.crystal_id])

\* the second hit in a row, later than the Put
C27_Witness ==
  /\ REDIS_AVAILABLE
  /\ IsCall("retrieve_crystal") /\ ret.py = "dict"
  /\ hits_since_put[call.crystal_id] = 2
  /\ ret.access_count = 0
  /\ now > put_at[call.crystal_id]

\* a step that is a whole search_crystals call
search_step == calls' = calls + 1 /\ call'.op = "search_crystals"

\* C28: a Search changes nothing of the store: the records with their
\* access_count, last_accessed and efficiency_score, the Redis keys with
\* their expirations, the hit, miss and write counters, the per-id access
\* tallies, the efficiency history, the reward balance and the achievement
\* log are after the call what they were before it, under either backend.
C28_SearchReadOnly ==
  [][search_step
     => /\ crystals' = crystals
        /\ redis' = redis
        /\ cache_performance' = cache_performance
        /\ total_operations' = total_operations
        /\ access_patterns' = access_patterns
        /\ efficiency_history' = efficiency_history
        /\ broskie_balance' = broskie_balance
        /\ achievements' = achievements]_vars

\* a Search that returned a record of a store that has been written and read
C28_Witness ==
  /\ IsCall("search_crystals")
  /\ Len(ret.items) >= 1
  /\ total_operations >= 1
  /\ cache_performance.hits >= 1
  /\ \/ \E i \in 1..Len(crystals) : crystals[i].access_count >= 1
     \/ REDIS_AVAILABLE

\* the accesses a tally map adds up to
RECURSIVE sum_tallies(_)
sum_tallies(patterns) ==
  IF DOMAIN patterns = {} THEN 0
  ELSE LET k == CHOOSE k \in DOMAIN patterns : TRUE IN
       patterns[k]
         + sum_tallies([j \in DOMAIN patterns \ {k} |-> patterns[j]])

\* C29: with one caller at a time the hit counter is the sum of the per-id
\* access tallies, every id of the tally map has a tally >= 1 (a miss
\* creates no entry), so the size of the map, which /health reports as
\* active_crystals, is the number of ids with a tally > 0 that
\* calculate_crystal_efficiency uses; and that size never decreases, whether
\* a record is overwritten or gone.
C29_TalliesMatchHits ==
  /\ [](/\ cache_performance.hits = sum_tallies(access_patterns)
        /\ \A k \in DOMAIN access_patterns : access_patterns[k] >= 1
        /\ Cardinality(DOMAIN access_patterns)
             = active_crystals_of(access_patterns))
  /\ [][/\ DOMAIN access_patterns \subseteq DOMAIN access_patterns'
        /\ \A k \in DOMAIN access_patterns :
             access_patterns'[k] >= access_patterns[k]]_vars

\* a miss on one id after a hit on another whose record was then overwritten
C29_Witness ==
  /\ IsCall("retrieve_crystal") /\ ret.py = "NoneType" /\ ~call.io_fails
  /\ call.crystal_id \notin DOMAIN access_patterns
  /\ \E k \in DOMAIN access_patterns :
       /\ access_patterns[k] = 1
       /\ hits_since_put[k] = 0
  /\ cache_performance.hits = 1
  /\ cache_performance.misses >= 1

\* whether every two log entries of a type lie at least gap seconds apart
apart(achievement_type, gap) ==
  \A i, j \in entries_of(achievement_type) :
    i < j => legendary_state.achievements[j].time
               - legendary_state.achievements[i].time >= gap

\* C30 (as claimed): whatever the interleaving of the health evaluations of
\* the request handlers and the monitor, two 'High Performance' rewards are
\* at least 300 seconds apart and two 'Legendary Performance' rewards at
\* least 600 seconds apart.
C30_CooldownUnderConcurrency ==
  /\ apart("High Performance", HighCooldown)
  /\ apart("Legendary Performance", LegendaryCooldown)

====
